---- MODULE Spec2Model ----
(***************************************************************************)
(* Document cache, resource registry and cache-integration orchestrator of *)
(* apple-developer-docs-mcp (src/src/cache/document-cache.ts and           *)
(* src/src/cache/resource-manager.ts).                                     *)
(*                                                                         *)
(* The cache is the JavaScript Map of DocumentCache, kept as the sequence  *)
(* of its values in insertion order; the registry is the Map of            *)
(* ResourceManager, its registrations numbered in insertion order; a call  *)
(* of an async method runs from one await to the next without              *)
(* interruption, and at an await any other caller may run.                 *)
(***************************************************************************)
EXTENDS Integers, Sequences, FiniteSets, TLC

VARIABLES
  cache,                \* DocumentCache.cache: the Map's values, in insertion order
  registeredResources,  \* ResourceManager.registeredResources: hash -> registration
  registrationStats,    \* ResourceManager.registrationStats
  server,               \* the resources this.server.resource(...) has accepted
  config,               \* CacheIntegration.config
  now,                  \* the clock read by new Date(), in milliseconds
  calls,                \* the async calls in flight, one slot per caller
  toRegister,           \* per caller, what is left of the array of documents
                        \* its registerAllCachedDocuments goes through
  overlapped,           \* whether a call has started while another was in flight
  last                  \* the call that returned last: what it did and returned

vars == <<cache, registeredResources, registrationStats, server, config, now,
          calls, toRegister, overlapped, last>>

-----------------------------------------------------------------------------
(* Bounds of the model. *)

MaxTime == 1        \* the clock runs over 0..MaxTime
MaxAccess == 2      \* no accessCount is driven beyond MaxAccess
MaxReg == 2         \* no more than MaxReg registrations are attempted

-----------------------------------------------------------------------------
(* The inputs: URLs, formatter results. *)

UrlA == "https://developer.apple.com/documentation/mapkit/mapview"
UrlB == "https://developer.apple.com/documentation/swiftui"
UrlC == "https://developer.apple.com/mapkit/mapview"
UrlX == "not a url"

URLS == {UrlA, UrlB, UrlC, UrlX}

MdTitle == "# MapView"
MdDecl == "## Declaration"
MARKDOWNS == {MdTitle, MdDecl}

ErrText == "Error: Failed to fetch documentation"

\* what formatFunction() resolves to: { content: [{type, text}], isError? }
CONTENTS ==
  {[isError |-> FALSE, text |-> m] : m \in MARKDOWNS}
    \cup {[isError |-> TRUE, text |-> ErrText]}

undefined == "undefined"

\* the content of a call that never invoked formatFunction
notInvoked == [isError |-> FALSE, text |-> undefined]

PROCS == {1, 2}

-----------------------------------------------------------------------------
(* new URL(url): whether the string parses, and the non-empty segments of  *)
(* its pathname.                                                           *)

UrlParses(url) == url # UrlX

pathParts(url) ==
  CASE url = UrlA -> <<"documentation", "mapkit", "mapview">>
    [] url = UrlB -> <<"documentation", "swiftui">>
    [] url = UrlC -> <<"mapkit", "mapview">>
    [] OTHER -> <<>>

\* createHash('sha256').update(url).digest('hex')
generateCacheKey(url) ==
  CASE url = UrlA -> "80fcb2e213bbb70642b4b62bccbe1e36ea5768d46b088fff87bb3b8d883e3483"
    [] url = UrlB -> "692affe97a4bae3f761eeb2ed58fe8ba704b73e0f68ee37ad1ade11808277338"
    [] url = UrlC -> "59227acfee9aba6be87188bda0478b83c79208afee878ed4c35a6ac6765fc2c6"
    [] OTHER -> "d8b5bf9b9fd4760c61234d12614d80c96892c75fe92d8819c6320f1ca6b3533d"

KEYS == {generateCacheKey(u) : u \in URLS}

\* hash.substring(0, 8)
substring8(hash) ==
  CASE hash = generateCacheKey(UrlA) -> "80fcb2e2"
    [] hash = generateCacheKey(UrlB) -> "692affe9"
    [] hash = generateCacheKey(UrlC) -> "59227acf"
    [] OTHER -> "d8b5bf9b"

RECURSIVE join(_)
join(parts) ==
  IF parts = <<>> THEN ""
  ELSE IF Len(parts) = 1 THEN parts[1]
  ELSE parts[1] \o "/" \o join(Tail(parts))

generateResourceUri(url) ==
  IF UrlParses(url)
  THEN LET cleanParts == SelectSeq(pathParts(url), LAMBDA p : p # "documentation")
           slug == IF join(cleanParts) = "" THEN "unknown" ELSE join(cleanParts)
       IN "apple-docs://docs/" \o slug
  ELSE "apple-docs://docs/doc-" \o substring8(generateCacheKey(url))

\* index.ts, AppleDeveloperDocsMCPServer.generateDocsUri
generateDocsUri(url) ==
  IF UrlParses(url)
  THEN LET cleanParts == SelectSeq(pathParts(url), LAMBDA p : p # "documentation")
           slug == IF join(cleanParts) = "" THEN "unknown" ELSE join(cleanParts)
       IN "apple-docs://" \o slug
  ELSE "apple-docs://doc-" \o substring8(generateCacheKey(url))

-----------------------------------------------------------------------------
(* extractTitle, generateResourceName, detectDocumentType.                 *)

extractTitle(content) ==
  CASE content = MdTitle -> "MapView"
    [] content = MdDecl -> "Declaration"
    [] OTHER -> "Untitled Document"

sanitizedTitle(title) ==
  CASE title = "MapView" -> "mapview"
    [] title = "Declaration" -> "declaration"
    [] OTHER -> "untitled-document"

generateResourceName(document) == sanitizedTitle(document.title)

DOCTYPES == {"tutorial", "sample", "guide", "protocol", "class", "struct",
             "enum", "framework", "api", "documentation"}

\* lastSegment.includes(word), for the segments of URLS
segmentIncludes(segment, word) == FALSE

\* path.includes('/' + marker + '/'): the marker is a segment with one after it
pathIncludes(parts, marker) ==
  \E i \in 1..(Len(parts) - 1) : parts[i] = marker

contentIncludes(content, heading) == content = heading

\* the value returned; called only where new URL(url) does not throw
detectDocumentType(url, content) ==
  LET segments == pathParts(url)
      lastSegment == segments[Len(segments)]
      byContent ==
        IF contentIncludes(content, "## Declaration") THEN "api"
        ELSE IF contentIncludes(content, "## Tutorial") THEN "tutorial"
        ELSE IF contentIncludes(content, "## Sample Code") THEN "sample"
        ELSE "documentation"
  IN IF pathIncludes(segments, "documentation")
     THEN IF pathIncludes(segments, "tutorials") THEN "tutorial"
          ELSE IF pathIncludes(segments, "sample-code") THEN "sample"
          ELSE IF pathIncludes(segments, "guides") THEN "guide"
          ELSE IF Len(segments) >= 3
               THEN IF segmentIncludes(lastSegment, "protocol") THEN "protocol"
                    ELSE IF segmentIncludes(lastSegment, "class") THEN "class"
                    ELSE IF segmentIncludes(lastSegment, "struct") THEN "struct"
                    ELSE IF segmentIncludes(lastSegment, "enum") THEN "enum"
                    ELSE "api"
               ELSE byContent
     ELSE byContent

-----------------------------------------------------------------------------
(* DocumentCache.  The Map is the sequence of its entries in insertion    *)
(* order.  An entry is the key it is held under together with the fields   *)
(* of the document object it holds; id is the identity of that object: two *)
(* entries of one id are one object under two keys, and an assignment to a *)
(* field of the object shows under both.  Every operation takes the Map    *)
(* and returns the Map it leaves (with what it returns, where it returns   *)
(* something).                                                             *)

\* the entry of the Map that holds the object document under key
entry(key, document) == [key |-> key] @@ document

\* the document object an entry holds
documentOf(e) == [f \in DOMAIN e \ {"key"} |-> e[f]]

\* Map.prototype.get / has: the place of the key, 0 for none
indexOf(c, hash) ==
  IF \E i \in 1..Len(c) : c[i].key = hash
  THEN CHOOSE i \in 1..Len(c) : c[i].key = hash
  ELSE 0

\* Map.prototype.set: an existing key keeps its place in the iteration order
mapSet(c, key, document) ==
  IF indexOf(c, key) # 0
  THEN [c EXCEPT ![indexOf(c, key)] = entry(key, document)]
  ELSE Append(c, entry(key, document))

\* Map.prototype.delete
mapDelete(c, hash) == SelectSeq(c, LAMBDA e : e.key # hash)

\* the Map after the assignments object.field = ... that make the object of
\* that identity the record object
assigned(c, object) ==
  [i \in 1..Len(c) |->
     IF c[i].id = object.id THEN entry(c[i].key, object) ELSE c[i]]

\* lines 60-62: the document after the three assignments of set
stamped(url, document, t) ==
  [document EXCEPT !.hash = generateCacheKey(url),
                   !.accessCount = 0,
                   !.timestamp = t]

\* lines 58-65: the assignments are made to the object the caller hands
\* over, which the Map may hold already; then the Map holds it under its
\* new hash
set(c, url, document, t) ==
  LET object == stamped(url, document, t)
  IN mapSet(assigned(c, object), object.hash, object)

\* [cache: the Map afterwards, document: <<>> for undefined, else <<the
\* object found>>]; accessCount++ is an assignment to the object
getByHash(c, hash) ==
  LET i == indexOf(c, hash)
  IN IF i = 0
     THEN [cache |-> c, document |-> <<>>]
     ELSE LET object == [documentOf(c[i]) EXCEPT !.accessCount = @ + 1]
          IN [cache |-> assigned(c, object), document |-> <<object>>]

\* a lookup that never finds the document
getMiss(c, url) == [cache |-> c, document |-> <<>>]

get(c, url) == getByHash(c, generateCacheKey(url))

has(c, url) == indexOf(c, generateCacheKey(url)) # 0

deleteByHash(c, hash) ==
  [cache |-> mapDelete(c, hash), removed |-> indexOf(c, hash) # 0]

delete(c, url) == deleteByHash(c, generateCacheKey(url))

\* Array.from(this.cache.keys())
getAllHashes(c) == [i \in 1..Len(c) |-> c[i].key]

size(c) == Len(c)

clear(c) == <<>>

\* Array.from(this.cache.values()): the objects, one for every key
getAll(c) == [i \in 1..Len(c) |-> documentOf(c[i])]

\* the estimate of getStats for one document
memoryOf(doc) ==
  Len(doc.url) * 2 + Len(doc.hash) * 2 + Len(doc.markdown) * 2
    + Len(doc.title) * 2 + Len(doc.type) * 2 + 100

RECURSIVE totalAccessCount(_)
totalAccessCount(documents) ==
  IF documents = <<>> THEN 0
  ELSE Head(documents).accessCount + totalAccessCount(Tail(documents))

RECURSIVE estimatedMemoryUsage(_)
estimatedMemoryUsage(documents) ==
  IF documents = <<>> THEN 0
  ELSE memoryOf(Head(documents)) + estimatedMemoryUsage(Tail(documents))

\* averageAccessCount is the quotient dividend / divisor, 0 for no document
getStats(c) ==
  [totalDocuments |-> Len(getAll(c)),
   totalAccessCount |-> totalAccessCount(getAll(c)),
   averageAccessCount |->
     IF Len(getAll(c)) > 0
     THEN [dividend |-> totalAccessCount(getAll(c)), divisor |-> Len(getAll(c))]
     ELSE [dividend |-> 0, divisor |-> 1],
   estimatedMemoryUsage |-> estimatedMemoryUsage(getAll(c))]

\* the comparator of getLeastRecentlyUsed: negative, zero or positive
compareLRU(a, b) ==
  IF a.accessCount # b.accessCount
  THEN a.accessCount - b.accessCount
  ELSE a.timestamp - b.timestamp

\* Array.prototype.sort is stable: d goes before the first element it precedes
RECURSIVE insertSorted(_, _)
insertSorted(sorted, d) ==
  IF sorted = <<>> THEN <<d>>
  ELSE IF compareLRU(d, Head(sorted)) < 0 THEN <<d>> \o sorted
  ELSE <<Head(sorted)>> \o insertSorted(Tail(sorted), d)

RECURSIVE sortLRU(_)
sortLRU(docs) ==
  IF docs = <<>> THEN <<>>
  ELSE insertSorted(sortLRU(SubSeq(docs, 1, Len(docs) - 1)), docs[Len(docs)])

\* Array.prototype.slice(0, count)
slice0(s, count) ==
  IF count >= 0
  THEN SubSeq(s, 1, IF count < Len(s) THEN count ELSE Len(s))
  ELSE SubSeq(s, 1, IF Len(s) + count > 0 THEN Len(s) + count ELSE 0)

getLeastRecentlyUsed(c, count) == slice0(sortLRU(getAll(c)), count)

RECURSIVE evictEach(_, _, _)
evictEach(c, toEvict, evictedHashes) ==
  IF toEvict = <<>>
  THEN [cache |-> c, evicted |-> evictedHashes]
  ELSE LET d == deleteByHash(c, Head(toEvict).hash)
       IN evictEach(d.cache, Tail(toEvict),
                    IF d.removed THEN Append(evictedHashes, Head(toEvict).hash)
                    ELSE evictedHashes)

\* evictLRU that selects the documents and deletes none of them
evictLRUKeep(c, count) ==
  [cache |-> c,
   evicted |-> [i \in 1..Len(getLeastRecentlyUsed(c, count)) |->
                  getLeastRecentlyUsed(c, count)[i].hash]]

evictLRU(c, count) == evictEach(c, getLeastRecentlyUsed(c, count), <<>>)

-----------------------------------------------------------------------------
(* ResourceManager.  A world w is the heap the three classes share:        *)
(* [cache, registeredResources, registrationStats, server, toRegister].    *)

world == [cache |-> cache,
          registeredResources |-> registeredResources,
          registrationStats |-> registrationStats,
          server |-> server,
          toRegister |-> toRegister]

isRegistered(w, hash) == hash \in DOMAIN w.registeredResources

\* resourceTypes[type] || 0
typeCount(types, type) == IF type \in DOMAIN types THEN types[type] ELSE 0

\* resourceTypes[type] = Math.max(0, (resourceTypes[type] || 0) + d)
bump(types, type, d) ==
  [t \in DOMAIN types \cup {type} |->
     IF t = type
     THEN IF typeCount(types, type) + d > 0 THEN typeCount(types, type) + d ELSE 0
     ELSE types[t]]

ServerError == "Resource is already registered"

\* an object as something other than the Map holds it (the callback of a
\* resource, the array of a registerAllCachedDocuments in flight): what is
\* read of it there are its identity, url, hash, markdown, title and type,
\* never accessCount and timestamp (0)
reference(document) == [document EXCEPT !.accessCount = 0, !.timestamp = 0]

\* what this.server.resource(name, uri, metadata, callback) keeps: the name,
\* the uri and the callback, which closes over the document object; order
\* numbers the resources in the order the server has accepted them
resource(document, order) ==
  [name |-> generateResourceName(document),
   uri |-> generateResourceUri(document.url),
   order |-> order,
   document |-> reference(document)]

\* registerResource that does not count what it does
registerResourceUncounted(w, document, serverThrows) ==
  [w |-> IF serverThrows \/ isRegistered(w, document.hash) THEN w
         ELSE [w EXCEPT !.registeredResources =
                 [h \in DOMAIN @ \cup {document.hash} |->
                    IF h = document.hash
                    THEN [uri |-> generateResourceUri(document.url),
                          name |-> generateResourceName(document),
                          success |-> TRUE, error |-> undefined,
                          order |-> w.registrationStats.successfulRegistrations + 1]
                    ELSE @[h]]],
   registration |->
     [uri |-> generateResourceUri(document.url),
      name |-> generateResourceName(document),
      success |-> ~serverThrows \/ isRegistered(w, document.hash),
      error |-> IF serverThrows /\ ~isRegistered(w, document.hash)
                THEN ServerError ELSE undefined]]

\* registeredResources.set(hash, registration) for a hash that is not in
\* the Map: the entry goes to the end of the Map's order.  order numbers the
\* insertions; successfulRegistrations counts them
inserted(registration, order) ==
  [uri |-> registration.uri, name |-> registration.name,
   success |-> registration.success, error |-> registration.error,
   order |-> order]

\* serverThrows: whether this.server.resource(...) throws
registerResource(w, document, serverThrows) ==
  LET uri == generateResourceUri(document.url)
      name == generateResourceName(document)
      st == w.registrationStats
  IN IF isRegistered(w, document.hash)
     THEN [w |-> w,
           registration |-> [uri |-> uri, name |-> name, success |-> TRUE,
                             error |-> undefined]]
     ELSE IF serverThrows
     THEN [w |-> [w EXCEPT !.registrationStats =
                     [st EXCEPT !.totalResources = @ + 1,
                                !.failedRegistrations = @ + 1]],
           registration |-> [uri |-> uri, name |-> name, success |-> FALSE,
                             error |-> ServerError]]
     ELSE LET registration == [uri |-> uri, name |-> name, success |-> TRUE,
                               error |-> undefined]
          IN [w |-> [w EXCEPT
                       !.registeredResources =
                          [h \in DOMAIN @ \cup {document.hash} |->
                             IF h = document.hash
                             THEN inserted(registration, st.successfulRegistrations + 1)
                             ELSE @[h]],
                       !.registrationStats =
                          [st EXCEPT !.totalResources = @ + 1,
                                     !.successfulRegistrations = @ + 1,
                                     !.resourceTypes =
                                        bump(@, document.type, 1)],
                       !.server =
                          @ \cup {resource(document, Cardinality(@) + 1)}],
              registration |-> registration]

\* unregisterResource that leaves the registration in the Map
unregisterResourceKeep(w, hash) == [w |-> w, result |-> isRegistered(w, hash)]

unregisterResource(w, hash) ==
  IF ~isRegistered(w, hash)
  THEN [w |-> w, result |-> FALSE]
  ELSE LET g == getByHash(w.cache, hash)
           types == w.registrationStats.resourceTypes
       IN [w |-> [w EXCEPT
                    !.registeredResources =
                       [h \in DOMAIN @ \ {hash} |-> @[h]],
                    !.cache = g.cache,
                    !.registrationStats.resourceTypes =
                       IF g.document # <<>>
                       THEN bump(types, g.document[1].type, -1)
                       ELSE types],
           result |-> TRUE]

getResourceUri(w, hash) ==
  LET g == getByHash(w.cache, hash)
  IN [w |-> [w EXCEPT !.cache = g.cache],
      uri |-> IF g.document = <<>>
              THEN "apple-docs://documentation/unknown-" \o hash
              ELSE generateResourceUri(g.document[1].url)]

\* for (const [hash, registration] of this.registeredResources): the hashes
\* of a set in the order of the Map
RECURSIVE inOrder(_, _)
inOrder(w, hashes) ==
  IF hashes = {} THEN <<>>
  ELSE LET first == CHOOSE h \in hashes :
                      \A g \in hashes : w.registeredResources[h].order
                                           <= w.registeredResources[g].order
       IN <<first>> \o inOrder(w, hashes \ {first})

\* this.cache.getByHash(hash) for each of the hashes in turn
RECURSIVE getEach(_, _)
getEach(c, hashes) ==
  IF hashes = <<>> THEN c
  ELSE getEach(getByHash(c, Head(hashes)).cache, Tail(hashes))

\* lines 296-302: the scan reads every registered hash with getByHash
scanRegistered(w) ==
  [w EXCEPT !.cache = getEach(@, inOrder(w, DOMAIN w.registeredResources))]

\* the scan that finds no registration stale
staleResourcesNone(w) == <<>>

\* lines 296-302: the registered hashes getByHash finds no document for
staleResources(w) ==
  inOrder(w, {hash \in DOMAIN w.registeredResources : indexOf(w.cache, hash) = 0})

\* lines 304-309: [w, cleaned]
RECURSIVE unregisterStale(_, _, _)
unregisterStale(w, hashes, cleaned) ==
  IF hashes = <<>> THEN [w |-> w, cleaned |-> cleaned]
  ELSE LET u == unregisterResource(w, Head(hashes))
       IN unregisterStale(u.w, Tail(hashes),
                          IF u.result THEN cleaned + 1 ELSE cleaned)

\* nothing else running between its awaits
cleanupStaleResources(w) ==
  unregisterStale(scanRegistered(w), staleResources(w), 0)

\* what holds the object besides the Map holds it as assigned: the
\* callbacks that close over it read its new hash, and so does a
\* registerAllCachedDocuments that has it in its array
rebound(w, object) ==
  [w EXCEPT
     !.server =
        {IF r.document.id = object.id
         THEN [r EXCEPT !.document = reference(object)] ELSE r : r \in @},
     !.toRegister =
        [p \in PROCS |->
           [i \in 1..Len(@[p]) |->
              IF @[p][i].id = object.id THEN reference(object) ELSE @[p][i]]]]

\* a callback that returns the markdown of the document it was given
readSnapshot(w, r) ==
  [w |-> w, thrown |-> FALSE, error |-> undefined,
   contents |-> [uri |-> r.uri, text |-> r.document.markdown,
                 mimeType |-> "text/markdown"]]

\* lines 157-171: the read callback of the resource r the server holds
read(w, r) ==
  LET g == getByHash(w.cache, r.document.hash)
  IN IF g.document = <<>>
     THEN [w |-> w, thrown |-> TRUE,
           error |-> "Documentation not found: " \o r.document.title,
           contents |-> undefined]
     ELSE [w |-> [w EXCEPT !.cache = g.cache], thrown |-> FALSE,
           error |-> undefined,
           contents |-> [uri |-> r.uri, text |-> g.document[1].markdown,
                         mimeType |-> "text/markdown"]]

-----------------------------------------------------------------------------
(* CacheIntegration.cacheAwareFormat, in the pieces its awaits cut it in.  *)

\* lines 480-499: the lookup; on a hit the call returns result
cafLookup(w, url, skipCache) ==
  LET g == IF config.enabled /\ ~skipCache
           THEN get(w.cache, url)
           ELSE [cache |-> w.cache, document |-> <<>>]
  IN IF g.document # <<>>
     THEN LET cached == g.document[1]
              r == getResourceUri([w EXCEPT !.cache = g.cache], cached.hash)
          IN [hit |-> TRUE, w |-> r.w,
              result |-> [content |-> [isError |-> FALSE, text |-> cached.markdown],
                          fromCache |-> TRUE,
                          cacheKey |-> generateCacheKey(url),
                          resourceUri |-> r.uri,
                          error |-> undefined]]
     ELSE [hit |-> FALSE, w |-> w,
           result |-> [content |-> [isError |-> FALSE, text |-> undefined],
                       fromCache |-> FALSE,
                       cacheKey |-> generateCacheKey(url),
                       resourceUri |-> undefined,
                       error |-> undefined]]

\* a result that drops the error message
uncachedNoError(url, content, error) ==
  [content |-> content, fromCache |-> FALSE, cacheKey |-> generateCacheKey(url),
   resourceUri |-> undefined, error |-> undefined]

uncached(url, content, error) ==
  [content |-> content, fromCache |-> FALSE, cacheKey |-> generateCacheKey(url),
   resourceUri |-> undefined, error |-> error]

RECURSIVE unregisterEach(_, _)
unregisterEach(w, hashes) ==
  IF hashes = <<>> THEN w
  ELSE unregisterEach(unregisterResource(w, Head(hashes)).w, Tail(hashes))

\* a caching condition that does not look at enabled
shouldCacheDisabled(content) == ~content.isError

\* a caching condition that does not look at isError
shouldCacheAlways(content) == config.enabled

\* line 509: this.config.enabled && content && !content.isError
shouldCache(content) == config.enabled /\ ~content.isError

\* an eviction that leaves the registration of the evicted entry in place
cafAfterFormatEvictOnly(w, url, content) ==
  IF ~shouldCache(content)
  THEN [w |-> w, pc |-> "return", result |-> uncached(url, content, undefined)]
  ELSE IF ~UrlParses(url)
  THEN [w |-> w, pc |-> "return", result |-> uncached(url, content, "Invalid URL")]
  ELSE IF config.maxCacheSize > 0 /\ size(w.cache) >= config.maxCacheSize
  THEN IF config.autoEvict
       THEN LET e == evictLRU(w.cache, 1)
            IN [w |-> [w EXCEPT !.cache = e.cache],
                pc |-> IF e.evicted = <<>> THEN "store" ELSE "unregister",
                result |-> uncached(url, content, undefined)]
       ELSE [w |-> w, pc |-> "return",
             result |-> uncached(url, content, "Cache size limit reached")]
  ELSE [w |-> w, pc |-> "store", result |-> uncached(url, content, undefined)]

\* lines 509-545, entered with the awaited content: the title and the type,
\* the size limit.  pc: "return" (with result), "unregister" (an entry is
\* evicted and unregistered, the call awaits), "store" (it goes on at once)
cafAfterFormat(w, url, content) ==
  IF ~shouldCache(content)
  THEN [w |-> w, pc |-> "return", result |-> uncached(url, content, undefined)]
  ELSE IF ~UrlParses(url)   \* detectDocumentType: new URL(url) throws
  THEN [w |-> w, pc |-> "return", result |-> uncached(url, content, "Invalid URL")]
  ELSE IF config.maxCacheSize > 0 /\ size(w.cache) >= config.maxCacheSize
  THEN IF config.autoEvict
       THEN LET e == evictLRU(w.cache, 1)
                w1 == unregisterEach([w EXCEPT !.cache = e.cache], e.evicted)
            IN [w |-> w1,
                pc |-> IF e.evicted = <<>> THEN "store" ELSE "unregister",
                result |-> uncached(url, content, undefined)]
       ELSE [w |-> w, pc |-> "return",
             result |-> uncached(url, content, "Cache size limit reached")]
  ELSE [w |-> w, pc |-> "store", result |-> uncached(url, content, undefined)]

\* the identity of an object that is created: the least number that none
\* of the objects has which the Map, the callbacks of the server and the
\* calls in flight hold
newId(w) ==
  LET objectsHeld ==
        {w.cache[i].id : i \in 1..Len(w.cache)}
          \cup {r.document.id : r \in w.server}
          \cup UNION {{w.toRegister[p][i].id : i \in 1..Len(w.toRegister[p])} :
                       p \in PROCS}
  IN CHOOSE n \in 1..(Cardinality(objectsHeld) + 1) :
       /\ n \notin objectsHeld
       /\ \A m \in 1..(n - 1) : m \in objectsHeld

\* lines 516-524: the document cacheAwareFormat builds, a new object
cachedDoc(url, markdown, t, id) ==
  [id |-> id, url |-> url, hash |-> generateCacheKey(url), markdown |-> markdown,
   title |-> extractTitle(markdown), type |-> detectDocumentType(url, markdown),
   timestamp |-> t, accessCount |-> 0]

\* lines 547-567: the store and the registration.  pc: "register" (the call
\* awaits registerResource) or "return"
cafStore(w, url, content, serverThrows, t) ==
  LET doc == cachedDoc(url, content.text, t, newId(w))
      c1 == set(w.cache, url, doc, t)
      stored == documentOf(c1[indexOf(c1, generateCacheKey(url))])
      w1 == [w EXCEPT !.cache = c1]
  IN IF config.registerResources
     THEN LET r == registerResource(w1, stored, serverThrows)
          IN [w |-> r.w, pc |-> "register",
              result |-> [uncached(url, content, undefined) EXCEPT
                            !.resourceUri = IF r.registration.success
                                            THEN r.registration.uri
                                            ELSE undefined]]
     ELSE [w |-> w1, pc |-> "return", result |-> uncached(url, content, undefined)]

\* a whole call, nothing else running between its awaits:
\* [w, result, formatCalls: how often formatFunction was invoked,
\*  evicted: the hashes evictLRU returned, stored: whether cache.set ran]
cacheAwareFormat(w, url, skipCache, content, serverThrows, t) ==
  LET l == cafLookup(w, url, skipCache)
  IN IF l.hit
     THEN [w |-> l.w, result |-> l.result, formatCalls |-> 0,
           evicted |-> <<>>, stored |-> FALSE]
     ELSE LET a == cafAfterFormat(l.w, url, content)
          IN IF a.pc = "return"
             THEN [w |-> a.w, result |-> a.result, formatCalls |-> 1,
                   evicted |-> <<>>, stored |-> FALSE]
             ELSE LET s == cafStore(a.w, url, content, serverThrows, t)
                  IN [w |-> s.w, result |-> s.result, formatCalls |-> 1,
                      evicted |-> IF a.pc = "unregister"
                                  THEN evictLRU(l.w.cache, 1).evicted ELSE <<>>,
                      stored |-> TRUE]

\* lines 619-631, nothing else running between its awaits
clearAll(w) ==
  LET w1 == unregisterEach(w, getAllHashes(w.cache))
  IN [w1 EXCEPT !.cache = clear(w1.cache)]

-----------------------------------------------------------------------------
(* The state machine. *)

CONFIGS == [enabled : BOOLEAN, registerResources : BOOLEAN,
            maxCacheSize : {0, 1, 2}, autoEvict : BOOLEAN]

\* what is kept of the call that returned last: the operation, and of a
\* cacheAwareFormat result fromCache, error and content.isError, how often
\* formatFunction was invoked, the hashes evicted, whether cache.set ran
noCall == [op |-> "none", fromCache |-> FALSE, error |-> undefined,
           isError |-> FALSE, formatCalls |-> 0, evicted |-> <<>>,
           stored |-> FALSE, value |-> undefined]

\* a call of the cache or of the registry has returned value
done(op, value) == [noCall EXCEPT !.op = op, !.value = value]

\* a caller with no call in flight
idle == [pc |-> "idle", url |-> undefined, skipCache |-> FALSE,
         content |-> notInvoked, hashes |-> <<>>, ret |-> noCall]

InitWith(configs) ==
  /\ cache = <<>>
  /\ registeredResources = <<>>
  /\ registrationStats = [totalResources |-> 0, successfulRegistrations |-> 0,
                          failedRegistrations |-> 0, resourceTypes |-> <<>>]
  /\ server = {}
  /\ config \in configs
  /\ now = 0
  /\ calls = [p \in PROCS |-> idle]
  /\ toRegister = [p \in PROCS |-> <<>>]
  /\ overlapped = FALSE
  /\ last = noCall

\* the model stops where a counter would leave its bound
Bounded(w) ==
  /\ \A i \in 1..Len(w.cache) : w.cache[i].accessCount <= MaxAccess
  /\ w.registrationStats.totalResources <= MaxReg

\* the objects in the order of the places that hold them: the entries of
\* the Map, the arrays of the callers (n of them), the resources of the
\* server in the order it accepted them
RECURSIVE holders(_, _)
holders(w, n) ==
  IF n = 0
  THEN [i \in 1..Len(w.cache) |-> w.cache[i].id]
  ELSE IF n \in PROCS
  THEN holders(w, n - 1) \o [i \in 1..Len(w.toRegister[n]) |-> w.toRegister[n][i].id]
  ELSE holders(w, n - 1)
         \o [k \in 1..Cardinality(w.server) |->
               (CHOOSE r \in w.server : r.order = k).document.id]

\* the identity of an object is kept as its number among the objects held,
\* counted in the order of the places that hold them: two objects stay two
\* whether or not the Map still holds them
named(w) ==
  LET h == holders(w, Cardinality(PROCS) + 1)
      number(id) ==
        LET first == CHOOSE i \in 1..Len(h) :
                       h[i] = id /\ \A j \in 1..(i - 1) : h[j] # id
        IN Cardinality({h[j] : j \in 1..first})
  IN [w EXCEPT
        !.cache = [i \in 1..Len(@) |-> [@[i] EXCEPT !.id = number(@)]],
        !.server = {[r EXCEPT !.document.id = number(@)] : r \in @},
        !.toRegister =
           [p \in PROCS |->
              [i \in 1..Len(@[p]) |-> [@[p][i] EXCEPT !.id = number(@)]]]]

Write(w) ==
  /\ Bounded(w)
  /\ cache' = named(w).cache
  /\ registeredResources' = w.registeredResources
  /\ registrationStats' = w.registrationStats
  /\ server' = named(w).server
  /\ toRegister' = named(w).toRegister

NoCallInFlight == \A p \in PROCS : calls[p].pc = "idle"

\* a millisecond passes
Tick ==
  /\ now < MaxTime
  /\ now' = now + 1
  /\ UNCHANGED <<cache, registeredResources, registrationStats, server, toRegister,
                 config, calls, overlapped, last>>

\* DocumentCache.get(url), as index.ts calls it on the shared cache
Get(url) ==
  /\ Write([world EXCEPT !.cache = get(cache, url).cache])
  /\ last' = [noCall EXCEPT !.op = "get"]
  /\ UNCHANGED <<config, now, calls, overlapped>>

\* DocumentCache.delete(url)
Delete(url) ==
  /\ Write([world EXCEPT !.cache = delete(cache, url).cache])
  /\ last' = [noCall EXCEPT !.op = "delete"]
  /\ UNCHANGED <<config, now, calls, overlapped>>

\* DocumentCache.evictLRU(count)
EvictLRU(count) ==
  /\ Write([world EXCEPT !.cache = evictLRU(cache, count).cache])
  /\ last' = [noCall EXCEPT !.op = "evictLRU",
                            !.evicted = evictLRU(cache, count).evicted]
  /\ UNCHANGED <<config, now, calls, overlapped>>

\* CacheIntegration.updateConfig(newConfig): the fields given replace the old
UpdateConfig(newConfig) ==
  /\ config' = [k \in DOMAIN config |->
                  IF k \in DOMAIN newConfig THEN newConfig[k] ELSE config[k]]
  /\ config' # config
  /\ last' = [noCall EXCEPT !.op = "updateConfig"]
  /\ UNCHANGED <<cache, registeredResources, registrationStats, server, toRegister,
                 now, calls, overlapped>>

\* the objects a caller of DocumentCache.set can hand over besides a new
\* one: those the Map holds, those the callbacks of the server close over and
\* those in the arrays of the calls in flight, whether or not the Map still
\* holds them (an object that nothing holds any more is as a new one)
objects(w) ==
  {reference(documentOf(w.cache[i])) : i \in 1..Len(w.cache)}
    \cup {r.document : r \in w.server}
    \cup UNION {{w.toRegister[p][i] : i \in 1..Len(w.toRegister[p])} : p \in PROCS}

\* DocumentCache.set(url, document): the object is assigned to, and what
\* holds it besides the Map (a callback of the server, the documents of a
\* registerAllCachedDocuments in flight) holds the object as assigned
Set(url, document) ==
  /\ Write(rebound([world EXCEPT !.cache = set(cache, url, document, now)],
                   stamped(url, document, now)))
  /\ last' = done("set", url)
  /\ UNCHANGED <<config, now, calls, overlapped>>

\* DocumentCache.getByHash(hash)
GetByHash(hash) ==
  /\ Write([world EXCEPT !.cache = getByHash(cache, hash).cache])
  /\ last' = done("getByHash", getByHash(cache, hash).document)
  /\ UNCHANGED <<config, now, calls, overlapped>>

\* DocumentCache.clear()
Clear ==
  /\ Write([world EXCEPT !.cache = clear(cache)])
  /\ last' = done("clear", undefined)
  /\ UNCHANGED <<config, now, calls, overlapped>>

\* has(url), size(), getAll(), getAllHashes(), getStats() and
\* getLeastRecentlyUsed(count): they return a value and assign nothing
Has(url) ==
  /\ last' = done("has", has(cache, url))
  /\ UNCHANGED <<cache, registeredResources, registrationStats, server, toRegister,
                 config, now, calls, overlapped>>

Size ==
  /\ last' = done("size", size(cache))
  /\ UNCHANGED <<cache, registeredResources, registrationStats, server, toRegister,
                 config, now, calls, overlapped>>

GetAll ==
  /\ last' = done("getAll", getAll(cache))
  /\ UNCHANGED <<cache, registeredResources, registrationStats, server, toRegister,
                 config, now, calls, overlapped>>

GetStats ==
  /\ last' = done("getStats", getStats(cache))
  /\ UNCHANGED <<cache, registeredResources, registrationStats, server, toRegister,
                 config, now, calls, overlapped>>

GetLeastRecentlyUsed(count) ==
  /\ last' = done("getLeastRecentlyUsed", getLeastRecentlyUsed(cache, count))
  /\ UNCHANGED <<cache, registeredResources, registrationStats, server, toRegister,
                 config, now, calls, overlapped>>

\* ResourceManager.registerResource(document)
RegisterResource(document, serverThrows) ==
  \E r \in {registerResource(world, document, serverThrows)} :
     /\ Write(r.w)
     /\ last' = done("registerResource", r.registration)
     /\ UNCHANGED <<config, now, calls, overlapped>>

\* ResourceManager.unregisterResource(hash)
UnregisterResource(hash) ==
  \E r \in {unregisterResource(world, hash)} :
     /\ Write(r.w)
     /\ last' = done("unregisterResource", r.result)
     /\ UNCHANGED <<config, now, calls, overlapped>>

\* ResourceManager.getResourceUri(hash)
GetResourceUri(hash) ==
  \E r \in {getResourceUri(world, hash)} :
     /\ Write(r.w)
     /\ last' = done("getResourceUri", r.uri)
     /\ UNCHANGED <<config, now, calls, overlapped>>

\* the server invokes the read callback of a resource it holds
Read(r) ==
  \E o \in {read(world, r)} :
     /\ r \in server
     /\ Write(o.w)
     /\ last' = done("read", [thrown |-> o.thrown, error |-> o.error,
                              contents |-> o.contents])
     /\ UNCHANGED <<config, now, calls, overlapped>>

\* index.ts derives the URI of a document it embeds or lists
GenerateDocsUri(url) ==
  /\ last' = done("generateDocsUri", generateDocsUri(url))
  /\ UNCHANGED <<cache, registeredResources, registrationStats, server, toRegister,
                 config, now, calls, overlapped>>

returned(r) ==
  [op |-> "cacheAwareFormat", fromCache |-> r.result.fromCache,
   error |-> r.result.error, isError |-> r.result.content.isError,
   formatCalls |-> r.formatCalls,
   evicted |-> r.evicted, stored |-> r.stored, value |-> undefined]

\* Async calls: a caller runs from one await to the next, and any caller may
\* run between.  A call takes the first slot that is free.
Start(p) ==
  /\ calls[p].pc = "idle"
  /\ \A q \in PROCS : q < p => calls[q].pc # "idle"
  /\ overlapped' = (overlapped \/ \E q \in PROCS : calls[q].pc # "idle")

Resume(p, call) == calls' = [calls EXCEPT ![p] = call]

Return(p, ret) ==
  /\ calls' = [calls EXCEPT ![p] = idle]
  /\ last' = ret

\* lines 547-567 of the call of p, to the await of registerResource
Store(p, url, content, w, evicted, serverThrows) ==
  \E s \in {cafStore(w, url, content, serverThrows, now)} :
    /\ Write(s.w)
    /\ LET ret == returned([result |-> s.result, formatCalls |-> 1,
                            evicted |-> evicted, stored |-> TRUE])
       IN IF s.pc = "register"
          THEN Resume(p, [idle EXCEPT !.pc = "register", !.url = url,
                                      !.skipCache = calls[p].skipCache,
                                      !.ret = ret])
               /\ UNCHANGED last
          ELSE Return(p, ret)

\* lines 480-506: p calls cacheAwareFormat; a miss invokes formatFunction
\* and awaits what it returns
CafCall(p, url, skipCache) ==
  \E l \in {cafLookup(world, url, skipCache)} :
    /\ Start(p)
    /\ Write(l.w)
    /\ IF l.hit
       THEN Return(p, returned([result |-> l.result, formatCalls |-> 0,
                                evicted |-> <<>>, stored |-> FALSE]))
       ELSE Resume(p, [idle EXCEPT !.pc = "format", !.url = url,
                                   !.skipCache = skipCache])
            /\ UNCHANGED last
    /\ UNCHANGED <<config, now>>

\* lines 506-560: the content arrives; the call runs to its next await
CafFormatted(p, content, serverThrows) ==
  \E a \in {cafAfterFormat(world, calls[p].url, content)} :
    /\ calls[p].pc = "format"
    /\ IF a.pc = "return"
       THEN /\ Write(a.w)
            /\ Return(p, returned([result |-> a.result, formatCalls |-> 1,
                                   evicted |-> <<>>, stored |-> FALSE]))
       ELSE IF a.pc = "unregister"
       THEN /\ Write(a.w)
            /\ Resume(p, [idle EXCEPT !.pc = "unregister", !.url = calls[p].url,
                                      !.skipCache = calls[p].skipCache,
                                      !.content = content,
                                      !.hashes = evictLRU(cache, 1).evicted])
            /\ UNCHANGED last
       ELSE Store(p, calls[p].url, content, a.w, <<>>, serverThrows)
    /\ UNCHANGED <<config, now, overlapped>>

\* lines 534-560: the await of unregisterResource is over
CafUnregistered(p, serverThrows) ==
  /\ calls[p].pc = "unregister"
  /\ Store(p, calls[p].url, calls[p].content, world, calls[p].hashes, serverThrows)
  /\ UNCHANGED <<config, now, overlapped>>

\* lines 554-567: the await of registerResource is over, the call returns
CafRegistered(p) ==
  /\ calls[p].pc = "register"
  /\ Return(p, calls[p].ret)
  /\ UNCHANGED <<cache, registeredResources, registrationStats, server, toRegister,
                 config, now, overlapped>>

\* lines 623-628 of clearAll: the next hash is unregistered and the call
\* awaits; after the last one the cache is cleared and the call returns
ClearLoop(p, hashes) ==
  IF hashes = <<>>
  THEN /\ Write([world EXCEPT !.cache = clear(cache)])
       /\ Return(p, [noCall EXCEPT !.op = "clearAll"])
  ELSE /\ Write(unregisterResource(world, Head(hashes)).w)
       /\ Resume(p, [idle EXCEPT !.pc = "clearing", !.hashes = Tail(hashes)])
       /\ UNCHANGED last

\* line 620: p calls clearAll
ClearCall(p) ==
  /\ Start(p)
  /\ ClearLoop(p, getAllHashes(cache))
  /\ UNCHANGED <<config, now>>

ClearResumed(p) ==
  /\ calls[p].pc = "clearing"
  /\ ClearLoop(p, calls[p].hashes)
  /\ UNCHANGED <<config, now, overlapped>>

\* lines 304-309 of cleanupStaleResources: the next stale hash is
\* unregistered and the call awaits; after the last one the call returns
\* the number it has unregistered
CleanLoop(p, w, hashes, cleaned) ==
  IF hashes = <<>>
  THEN /\ Write(w)
       /\ Return(p, done("cleanupStaleResources", cleaned))
  ELSE \E u \in {unregisterResource(w, Head(hashes))} :
         /\ Write(u.w)
         /\ Resume(p, [idle EXCEPT !.pc = "cleaning", !.hashes = Tail(hashes),
                                   !.ret = done("cleanupStaleResources",
                                                IF u.result THEN cleaned + 1
                                                ELSE cleaned)])
         /\ UNCHANGED last

\* lines 296-302: p calls cleanupStaleResources, which scans the registry
CleanupCall(p) ==
  /\ Start(p)
  /\ CleanLoop(p, scanRegistered(world), staleResources(world), 0)
  /\ UNCHANGED <<config, now>>

CleanupResumed(p) ==
  /\ calls[p].pc = "cleaning"
  /\ CleanLoop(p, world, calls[p].hashes, calls[p].ret.value)
  /\ UNCHANGED <<config, now, overlapped>>

\* lines 211-220 of registerAllCachedDocuments: the next document of the
\* array is registered and the call awaits; after the last one the call
\* returns (registerAllCachedDocuments the registrations,
\* refreshAllRegistrations nothing)
RegisterLoop(p, op, docs, registrations, serverThrows) ==
  IF docs = <<>>
  THEN /\ Write([world EXCEPT !.toRegister[p] = <<>>])
       /\ Return(p, done(op, IF op = "registerAllCachedDocuments"
                             THEN registrations ELSE undefined))
  ELSE \E r \in {registerResource(world, Head(docs), serverThrows)} :
         /\ Write([r.w EXCEPT !.toRegister[p] = Tail(docs)])
         /\ Resume(p, [idle EXCEPT !.pc = "registering",
                                   !.ret = done(op, Append(registrations,
                                                           r.registration))])
         /\ UNCHANGED last

\* line 205: the array of the documents the cache holds when the call starts
snapshot(c) == [i \in 1..Len(getAll(c)) |-> reference(getAll(c)[i])]

\* lines 204-211: p calls registerAllCachedDocuments
RegisterAllCall(p, serverThrows) ==
  /\ Start(p)
  /\ RegisterLoop(p, "registerAllCachedDocuments", snapshot(cache), <<>>,
                  serverThrows)
  /\ UNCHANGED <<config, now>>

RegisterAllResumed(p, serverThrows) ==
  /\ calls[p].pc = "registering"
  /\ RegisterLoop(p, calls[p].ret.op, toRegister[p], calls[p].ret.value,
                  serverThrows)
  /\ UNCHANGED <<config, now, overlapped>>

\* lines 322-326: p calls refreshAllRegistrations, which calls
\* cleanupStaleResources: the scan, the first stale hash unregistered, and
\* the call awaits
RefreshCall(p) ==
  /\ Start(p)
  /\ LET w == scanRegistered(world)
         hashes == staleResources(world)
     IN IF hashes = <<>>
        THEN /\ Write(w)
             /\ Resume(p, [idle EXCEPT !.pc = "refreshing"])
        ELSE /\ Write(unregisterResource(w, Head(hashes)).w)
             /\ Resume(p, [idle EXCEPT !.pc = "refreshing",
                                       !.hashes = Tail(hashes)])
  /\ UNCHANGED <<config, now, last>>

\* lines 304-309 and 326-329: the next stale hash is unregistered; after
\* the last one cleanupStaleResources returns and registerAllCachedDocuments
\* is called
RefreshResumed(p, serverThrows) ==
  /\ calls[p].pc = "refreshing"
  /\ IF calls[p].hashes # <<>>
     THEN /\ Write(unregisterResource(world, Head(calls[p].hashes)).w)
          /\ Resume(p, [idle EXCEPT !.pc = "refreshing",
                                    !.hashes = Tail(calls[p].hashes)])
          /\ UNCHANGED last
     ELSE RegisterLoop(p, "refreshAllRegistrations", snapshot(cache), <<>>,
                       serverThrows)
  /\ UNCHANGED <<config, now, overlapped>>

\* the steps of the cleanupStaleResources calls of all callers
Cleanups ==
  \/ \E p \in PROCS : CleanupCall(p)
  \/ \E p \in PROCS : CleanupResumed(p)

\* the steps of the registerAllCachedDocuments calls of all callers
RegistersAll(throws) ==
  \/ \E p \in PROCS, serverThrows \in throws : RegisterAllCall(p, serverThrows)
  \/ \E p \in PROCS, serverThrows \in throws : RegisterAllResumed(p, serverThrows)

\* the steps of the refreshAllRegistrations calls of all callers: to the
\* call of registerAllCachedDocuments, and the steps of that
Refreshes(throws) ==
  \/ \E p \in PROCS : RefreshCall(p)
  \/ \E p \in PROCS, serverThrows \in throws : RefreshResumed(p, serverThrows)
  \/ \E p \in PROCS, serverThrows \in throws : RegisterAllResumed(p, serverThrows)

\* the steps every cacheAwareFormat call has: the call, and the arrival of
\* the formatter's result
Misses(urls, contents, throws) ==
  \/ \E p \in PROCS, url \in urls, skipCache \in BOOLEAN : CafCall(p, url, skipCache)
  \/ \E p \in PROCS, content \in contents, serverThrows \in throws :
       CafFormatted(p, content, serverThrows)

\* the step after the await of line 534, which a call reaches that has
\* evicted
Evictions(throws) ==
  \E p \in PROCS, serverThrows \in throws : CafUnregistered(p, serverThrows)

\* the steps of the clearAll calls of all callers
Clears ==
  \/ \E p \in PROCS : ClearCall(p)
  \/ \E p \in PROCS : ClearResumed(p)

\* the steps of the cacheAwareFormat calls of all callers; the last one is
\* that after the await of line 554, reached with registerResources set
Formats(urls, contents, throws) ==
  \/ Misses(urls, contents, throws)
  \/ Evictions(throws)
  \/ \E p \in PROCS : CafRegistered(p)

\* the steps of the cacheAwareFormat and clearAll calls of all callers
Calls(urls, contents, throws) ==
  \/ Formats(urls, contents, throws)
  \/ Clears

\* the same where registerResources is not set
CallsUnregistered(urls, contents) ==
  \/ Misses(urls, contents, {FALSE})
  \/ Evictions({FALSE})
  \/ Clears

\* the steps of the callers of a CacheIntegration that neither registers nor
\* evicts, index.ts reading the cache
Step(urls, contents) ==
  \/ Tick
  \/ \E url \in urls : Get(url)
  \/ Misses(urls, contents, {FALSE})
  \/ Clears

OneMarkdown == {c \in CONTENTS : c.text # MdDecl}

\* formatters that do not fail
Formatted == {c \in CONTENTS : ~c.isError}

\* a registering server with room for one document in each setting of
\* enabled and autoEvict; two documents and the string that is no URL
Init == InitWith({c \in CONFIGS : c.registerResources /\ c.maxCacheSize = 1})

Next == Calls({UrlA, UrlB, UrlX}, OneMarkdown, {FALSE})

Spec == Init /\ [][Next]_vars

\* a registering server in every setting of enabled, maxCacheSize (no limit,
\* one document, two) and autoEvict; three documents, the server accepting
\* or not; the calls one after the other, none starting while another is in
\* flight
NextSequence == Calls({UrlA, UrlB, UrlC}, OneMarkdown, BOOLEAN) /\ ~overlapped'

SpecSequence ==
  InitWith({c \in CONFIGS : c.registerResources}) /\ [][NextSequence]_vars

\* the configurations that evict
EVICTING == {c \in CONFIGS : c.enabled /\ c.autoEvict /\ c.maxCacheSize > 0}

\* three documents, room for one or for two, nothing registered
NextEvict == CallsUnregistered({UrlA, UrlB, UrlC}, OneMarkdown)

SpecEvict ==
  InitWith({c \in EVICTING : ~c.registerResources}) /\ [][NextEvict]_vars

\* the callers of the cache itself as well: documents are deleted
REGISTERING == {c \in CONFIGS : c.enabled /\ c.registerResources /\ c.autoEvict}

NextApi ==
  \/ Calls({UrlA, UrlB}, OneMarkdown, {FALSE})
  \/ \E url \in {UrlA, UrlB} : Delete(url)

SpecApi == InitWith({c \in REGISTERING : c.maxCacheSize < 2}) /\ [][NextApi]_vars

\* the cache without a limit
UNLIMITED == {c \in CONFIGS : c.enabled /\ ~c.registerResources /\ c.autoEvict
                               /\ c.maxCacheSize = 0}

\* a new document as a caller of DocumentCache.set hands it over: the hash
\* not yet that of any URL, the access count not 0
callerDocument(url, markdown) ==
  [id |-> newId(world), url |-> url, hash |-> "", markdown |-> markdown,
   title |-> extractTitle(markdown), type |-> "documentation",
   timestamp |-> 0, accessCount |-> 1]

\* the cache and its evictLRU, two URLs; set is given a new
\* document or one the cache holds
NextLRU ==
  \/ Tick
  \/ \E url \in {UrlA, UrlB} :
       \/ Set(url, callerDocument(url, MdTitle))
       \/ \E i \in 1..Len(cache) : Set(url, documentOf(cache[i]))
       \/ Get(url)
  \/ \E count \in -1..3 : EvictLRU(count)

SpecLRU == InitWith(UNLIMITED) /\ [][NextLRU]_vars

\* a registering server with room for one document or for two; the calls
\* one after the other, the server accepting or not, and the configuration
\* (enabled, autoEvict, maxCacheSize) changed between the calls and at their
\* awaits: lowering maxCacheSize leaves the cache above its limit
NextConfig ==
  \/ Calls({UrlA, UrlB}, OneMarkdown, BOOLEAN) /\ ~overlapped'
  \/ \E newConfig \in [{"enabled"} -> BOOLEAN] \cup [{"autoEvict"} -> BOOLEAN]
                        \cup [{"maxCacheSize"} -> {1, 2}] :
       UpdateConfig(newConfig)

SpecConfig ==
  InitWith({c \in CONFIGS : c.registerResources /\ c.maxCacheSize > 0})
    /\ [][NextConfig]_vars

\* the callers of DocumentCache alone, two URLs; set is given a new
\* document or one the cache holds
NextCache ==
  \/ Tick
  \/ \E url \in {UrlA, UrlB} :
       \/ \E from \in {UrlA, UrlB} : Set(url, callerDocument(from, MdTitle))
       \/ \E i \in 1..Len(cache) : Set(url, documentOf(cache[i]))
       \/ Get(url)
       \/ GetByHash(generateCacheKey(url))
       \/ Has(url)
       \/ Delete(url)
  \/ Size
  \/ GetAll
  \/ GetStats
  \/ \E count \in -1..2 : GetLeastRecentlyUsed(count) \/ EvictLRU(count)
  \/ Clear

SpecCache == InitWith(UNLIMITED) /\ [][NextCache]_vars

\* the callers of DocumentCache.set and delete, two URLs, and a server that
\* reads the documents registered with it; set is given a new document, one
\* the cache holds, or one a callback of the server closes over, also after
\* the cache has dropped it
NextAlias ==
  \/ \E url \in {UrlA, UrlB} :
       \/ \E from \in {UrlA, UrlB} : Set(url, callerDocument(from, MdTitle))
       \/ \E document \in objects(world) : Set(url, document)
       \/ Delete(url)
  \/ \E i \in 1..Len(cache) : RegisterResource(documentOf(cache[i]), FALSE)
  \/ \E r \in server : Read(r)

SpecAlias == InitWith(UNLIMITED) /\ [][NextAlias]_vars

\* the callers of ResourceManager as well: cached documents are registered
\* one by one and all at once, stale registrations cleaned up
StepManager(urls, contents, throws) ==
  \/ Formats(urls, contents, throws)
  \/ \E url \in urls : Delete(url)
  \/ \E i \in 1..Len(cache), serverThrows \in throws :
       RegisterResource(documentOf(cache[i]), serverThrows)
  \/ Cleanups
  \/ RegistersAll(throws)
  \/ Refreshes(throws)

\* two documents whose URLs have the same slug
NextManager == StepManager({UrlA, UrlC}, Formatted \cap OneMarkdown, BOOLEAN)

SpecManager ==
  InitWith({c \in REGISTERING : c.maxCacheSize = 1}) /\ [][NextManager]_vars

\* stale registrations are cleaned up by cleanupStaleResources and by
\* refreshAllRegistrations
NextCleanup ==
  \/ Formats({UrlA, UrlC}, Formatted \cap OneMarkdown, {FALSE})
  \/ \E url \in {UrlA, UrlC} : Delete(url)
  \/ Cleanups
  \/ Refreshes({FALSE})

SpecCleanup ==
  InitWith({c \in REGISTERING : c.maxCacheSize = 1}) /\ [][NextCleanup]_vars

\* cached documents are registered one by one and all at once, the server
\* accepting or not
NextRegister ==
  \/ Formats({UrlA, UrlC}, Formatted \cap OneMarkdown, BOOLEAN)
  \/ \E i \in 1..Len(cache), serverThrows \in BOOLEAN :
       RegisterResource(documentOf(cache[i]), serverThrows)
  \/ RegistersAll(BOOLEAN)

SpecRegister ==
  InitWith({c \in REGISTERING : c.maxCacheSize = 1}) /\ [][NextRegister]_vars

\* documents are stored again with another markdown, evicted by the store
\* of another, deleted, cleared and unregistered, and read by the server;
\* the calls one after the other
NextRead ==
  \/ Calls({UrlA, UrlB}, Formatted, {FALSE}) /\ ~overlapped'
  \/ Delete(UrlA)
  \/ UnregisterResource(generateCacheKey(UrlA))
  \/ \E i \in 1..Len(cache) : RegisterResource(documentOf(cache[i]), FALSE)
  \/ \E r \in server : Read(r)

SpecRead ==
  InitWith({c \in REGISTERING : c.maxCacheSize = 1}) /\ [][NextRead]_vars

\* the server of index.ts: nothing is registered, URIs are derived for the
\* documents it returns
NextDocs ==
  \/ Step({UrlA, UrlX}, OneMarkdown)
  \/ \E url \in URLS :
       \/ GenerateDocsUri(url)
       \/ GetResourceUri(generateCacheKey(url))

SpecDocs == InitWith(UNLIMITED) /\ [][NextDocs]_vars

\* caching is switched off and on again between and during calls that
\* register
NextDisable ==
  \/ Calls({UrlA, UrlB}, OneMarkdown, {FALSE})
  \/ \E newConfig \in [{"enabled"} -> BOOLEAN] : UpdateConfig(newConfig)

SpecDisable ==
  InitWith({c \in REGISTERING : c.maxCacheSize = 1}) /\ [][NextDisable]_vars

\* two callers, their calls and the clock only
NextConc == Tick \/ Calls({UrlA, UrlB}, OneMarkdown, {FALSE})

SpecConc == InitWith({c \in EVICTING : c.maxCacheSize = 1}) /\ [][NextConc]_vars

\* the same with room for two documents: a caller that stores the second
\* one waits for no eviction
SpecClear == InitWith({c \in REGISTERING : c.maxCacheSize = 2}) /\ [][NextConc]_vars

-----------------------------------------------------------------------------
(* The claims. *)

\* C1: with maxCacheSize = N > 0 and autoEvict enabled, after every call of
\* a run in which calls do not overlap and entries enter through
\* cacheAwareFormat only, the cache holds at most N documents.
C1_SizeWithinLimit ==
  (~overlapped /\ config.maxCacheSize > 0 /\ config.autoEvict)
    => Len(cache) <= config.maxCacheSize

\* a call has evicted one of two documents and stored a third
C1_Witness ==
  /\ ~overlapped
  /\ last.op = "cacheAwareFormat" /\ last.stored /\ last.evicted # <<>>
  /\ config.maxCacheSize = 2 /\ Len(cache) = 2

\* C2: whatever way cacheAwareFormat calls overlap, with maxCacheSize = N > 0
\* and autoEvict enabled no call stores after another call has changed the
\* cache since its size check, so size() never exceeds N.
C2_SizeWithinLimitOverlapping ==
  \A n \in 1..2 :
    (config.maxCacheSize = n /\ config.autoEvict) => size(cache) <= n

\* C3: every registered key has a document in the cache, after any sequence
\* of cacheAwareFormat and clearAll calls that do not overlap, with
\* registerResources set and in every setting of maxCacheSize and autoEvict.
C3_RegisteredIsCached ==
  (~overlapped /\ NoCallInFlight)
    => \A k \in DOMAIN registeredResources : indexOf(cache, k) # 0

\* with room for two documents, both cached and registered, a call that
\* stores one of them again has evicted and unregistered the other and left
\* its own registered
C3_Witness ==
  /\ ~overlapped /\ NoCallInFlight
  /\ config.maxCacheSize = 2
  /\ last.op = "cacheAwareFormat" /\ last.stored /\ last.evicted # <<>>
  /\ ~isRegistered(world, last.evicted[1])
  /\ Len(cache) = 1 /\ isRegistered(world, cache[1].key)
  /\ registrationStats.successfulRegistrations = 2

\* the keys of a Map
keysOf(c) == {c[i].key : i \in 1..Len(c)}

\* the formatter's result has arrived in the call of p, and the call has run
\* to its next await or to its return
formatted(p) == calls[p].pc = "format" /\ calls'[p].pc # "format"

\* the call of p has gone on from its await of unregisterResource
unregistered(p) == calls[p].pc = "unregister" /\ calls'[p].pc # "unregister"

\* what the call of p returns, once it has run past its last change of state
outcome(p) == IF calls'[p].pc = "idle" THEN last' ELSE calls'[p].ret

\* C4: a cacheAwareFormat call for a URL that is not cached, with a formatter
\* result that is no error, autoEvict enabled and size() = maxCacheSize > 0,
\* no call overlapping it, evicts exactly the entry getLeastRecentlyUsed(1)
\* selects and unregisters its key, then stores the new document and leaves
\* size() = maxCacheSize.
C4_EvictsLeastRecentlyUsed ==
  [][\A p \in PROCS :
       /\ ( /\ formatted(p) /\ ~overlapped
            /\ config.enabled /\ config.autoEvict
            /\ config.maxCacheSize > 0 /\ size(cache) = config.maxCacheSize
            /\ ~has(cache, calls[p].url)
            /\ (calls'[p].pc = "idle" => ~last'.isError) )
          => LET victim == getLeastRecentlyUsed(cache, 1)[1].hash
             IN /\ calls'[p].pc = "unregister"
                /\ calls'[p].hashes = <<victim>>
                /\ keysOf(cache') = keysOf(cache) \ {victim}
                /\ ~isRegistered(world', victim)
       /\ (unregistered(p) /\ ~overlapped)
          => /\ has(cache', calls[p].url)
             /\ outcome(p).evicted = calls[p].hashes
             /\ size(cache') = config.maxCacheSize]_vars

\* a is strictly before b in the order of getLeastRecentlyUsed
before(a, b) ==
  \/ a.accessCount < b.accessCount
  \/ a.accessCount = b.accessCount /\ a.timestamp < b.timestamp

\* C5 as stated: getLeastRecentlyUsed(count) is the first count entries of
\* the cache in the order accessCount ascending, then timestamp ascending;
\* evictLRU(1) removes an entry of least accessCount and among those of
\* earliest timestamp, so no entry that has been read goes while one with
\* accessCount 0 stays.
C5_LeastRecentlyUsedOrder ==
  [][ /\ \A count \in 0..3 :
           LET l == getLeastRecentlyUsed(cache, count)
           IN /\ Len(l) = IF count < Len(cache) THEN count ELSE Len(cache)
              /\ \E f \in [1..Len(l) -> 1..Len(cache)] :
                   /\ \A i, j \in 1..Len(l) : i # j => f[i] # f[j]
                   /\ \A i \in 1..Len(l) : documentOf(cache[f[i]]) = l[i]
                   /\ \A k \in 1..Len(cache) :
                        (\A i \in 1..Len(l) : f[i] # k)
                          => \A i \in 1..Len(l) : ~before(cache[k], l[i])
              /\ \A i, j \in 1..Len(l) : i < j => ~before(l[j], l[i])
      /\ (cache # <<>> /\ last'.op = "evictLRU" /\ EvictLRU(1)) =>
           \E v \in 1..Len(cache) :
             /\ last'.evicted = <<cache[v].key>>
             /\ getAllHashes(cache') = getAllHashes(mapDelete(cache, cache[v].key))
             /\ \A k \in 1..Len(cache) :
                  /\ ~before(cache[k], cache[v])
                  /\ (cache[v].accessCount > 0 => cache[k].accessCount > 0)
    ]_vars

\* the cache is at its limit and may not evict
atLimitNoEvict == /\ ~config.autoEvict
                  /\ config.maxCacheSize > 0
                  /\ size(cache) >= config.maxCacheSize

\* what C6 says of the call's outcome r for formatter result content: the
\* call returns a result (a throw inside the caching branch is caught and
\* becomes the error of the result), and the cache, the registry, its
\* statistics and the server are as before
rejected(r, content) ==
  /\ r.formatCalls = 1
  /\ r.result.content = content
  /\ ~r.result.fromCache
  /\ r.result.error # undefined /\ r.result.error # ""
  /\ ~r.stored /\ r.evicted = <<>>
  /\ r.w.cache = cache
  /\ r.w.registeredResources = registeredResources
  /\ r.w.registrationStats = registrationStats
  /\ r.w.server = server

\* C6 as stated: with autoEvict disabled and size() >= maxCacheSize > 0, a call
\* for a URL that is not cached returns the formatter's result with
\* fromCache = false and a non-empty error, does not raise, and leaves the
\* cache and the registry unchanged.
C6_Original ==
  \A url \in URLS, skipCache \in BOOLEAN, content \in CONTENTS :
    (atLimitNoEvict /\ ~has(cache, url))
      => rejected(cacheAwareFormat(world, url, skipCache, content, FALSE, now),
                  content)

\* C6: with caching enabled, autoEvict disabled and size() >= maxCacheSize > 0,
\* a call for a URL that is not cached, whose formatter result is not flagged
\* isError, returns that result with fromCache = false and a non-empty error,
\* does not raise, and leaves the cache (membership, size, every entry) and
\* the registry unchanged, whether the server would accept a resource or not.
C6_RejectedAtLimit ==
  \A url \in URLS, skipCache \in BOOLEAN, content \in CONTENTS,
     serverThrows \in BOOLEAN :
    (config.enabled /\ ~content.isError /\ atLimitNoEvict /\ ~has(cache, url))
      => rejected(cacheAwareFormat(world, url, skipCache, content, serverThrows,
                                   now),
                  content)

\* a call has been turned away at the limit, the document the cache holds
\* being registered
C6_Witness ==
  /\ last.op = "cacheAwareFormat" /\ last.error = "Cache size limit reached"
  /\ ~last.fromCache /\ ~last.stored /\ last.formatCalls = 1
  /\ config.enabled /\ atLimitNoEvict
  /\ cache # <<>> /\ \A i \in 1..Len(cache) : isRegistered(world, cache[i].key)

\* C7: with caching enabled and skipCache false, a call for a URL that is
\* cached does not invoke the formatter and returns the stored markdown with
\* fromCache = true; the cache's keys, the registry and registrationStats are
\* as before.
C7_HitReturnsStored ==
  \A url \in URLS, content \in CONTENTS, serverThrows \in BOOLEAN :
    (config.enabled /\ has(cache, url))
      => LET r == cacheAwareFormat(world, url, FALSE, content, serverThrows, now)
             stored == cache[indexOf(cache, generateCacheKey(url))]
         IN /\ r.formatCalls = 0
            /\ r.result.fromCache
            /\ r.result.content = [isError |-> FALSE, text |-> stored.markdown]
            /\ getAllHashes(r.w.cache) = getAllHashes(cache)
            /\ r.w.registeredResources = registeredResources
            /\ r.w.registrationStats = registrationStats

\* a call has been answered from the cache, a document being registered
C7_Witness ==
  /\ last.op = "cacheAwareFormat" /\ last.fromCache /\ last.formatCalls = 0
  /\ config.enabled /\ registeredResources # <<>>

\* C8: when the formatter is invoked and its result is flagged isError, the
\* call returns that result unchanged with fromCache = false, and the cache,
\* the registry and registrationStats are unchanged.
C8_ErrorResultNotCached ==
  \A content \in {c \in CONTENTS : c.isError} :
    \A url \in URLS, skipCache \in BOOLEAN, serverThrows \in BOOLEAN :
      LET r == cacheAwareFormat(world, url, skipCache, content, serverThrows, now)
      IN r.formatCalls = 1
           => /\ r.result.content = content
              /\ ~r.result.fromCache
              /\ r.w = world

\* an error result has been returned, the cache holding a registered document
C8_Witness ==
  /\ last.op = "cacheAwareFormat" /\ last.isError /\ last.formatCalls = 1
  /\ ~last.fromCache /\ ~last.stored
  /\ config.enabled /\ cache # <<>> /\ registeredResources # <<>>

\* C9 as stated: with registerResources enabled, when the registration of the
\* stored document fails, the document stays in the cache and the result has
\* the formatter's content, fromCache = false and a non-empty error.
C9_RegistrationFailureReported ==
  [][\A p \in PROCS :
       ( /\ calls[p].pc \in {"format", "unregister"}
         /\ calls'[p].pc = "register"
         /\ config.registerResources
         /\ ~isRegistered(world', generateCacheKey(calls[p].url)) )
       => /\ has(cache', calls[p].url)
          /\ ~outcome(p).isError
          /\ ~outcome(p).fromCache
          /\ outcome(p).error # undefined /\ outcome(p).error # ""]_vars

\* C10 as stated: when clearAll(), called with no call in flight and nothing
\* running between its awaits, has returned, the cache is empty and every key
\* that was registered is unregistered.
C10_ClearAllUnregistersAll ==
  (~overlapped /\ NoCallInFlight)
    => LET w == clearAll(world)
       IN /\ w.cache = <<>>
          /\ \A k \in DOMAIN registeredResources : ~isRegistered(w, k)

\* the registered documents the cache holds
registeredDocuments(w) ==
  {k \in DOMAIN w.registeredResources : indexOf(w.cache, k) # 0}

\* C11 as stated: clearAll(), called with no call in flight, on a cache
\* holding n registered documents leaves size() = 0 and
\* getStats().totalResources n lower than it was.
C11_ClearAllLowersTotal ==
  (~overlapped /\ NoCallInFlight)
    => LET w == clearAll(world)
       IN /\ size(w.cache) = 0
          /\ w.registrationStats.totalResources =
               registrationStats.totalResources
                 - Cardinality(registeredDocuments(world))

\* C12 as stated: registerResource for a document whose key is registered
\* returns success = true with the URI and the name of the existing
\* registration, does not call the server again, and leaves the registry and
\* the statistics as they were (no calls having overlapped before).
C12_RegisterIdempotent ==
  [][\A i \in 1..Len(cache) :
       ( /\ ~overlapped /\ NoCallInFlight
         /\ isRegistered(world, cache[i].hash)
         /\ last'.op = "registerResource"
         /\ RegisterResource(documentOf(cache[i]), FALSE) )
         => /\ last'.value.success
            /\ last'.value.uri = registeredResources[cache[i].hash].uri
            /\ last'.value.name = registeredResources[cache[i].hash].name
            /\ server' = server
            /\ registeredResources' = registeredResources
            /\ registrationStats' = registrationStats]_vars

\* C13: registerResource returns a registration whatever the server does, with
\* an error exactly when success is false; when the server's registration call
\* throws, success is false and an error is given, failedRegistrations is one
\* higher, successfulRegistrations, the registry and the cache are as before,
\* and the key is not registered.
C13_RegistrationFailureCounted ==
  \A i \in 1..Len(cache), serverThrows \in BOOLEAN :
    LET document == documentOf(cache[i])
        r == registerResource(world, document, serverThrows)
        before_ == registrationStats
        after == r.w.registrationStats
    IN /\ (r.registration.error # undefined) <=> ~r.registration.success
       /\ (serverThrows /\ ~isRegistered(world, document.hash))
            => /\ ~r.registration.success
               /\ r.registration.error # ""
               /\ after.failedRegistrations = before_.failedRegistrations + 1
               /\ after.successfulRegistrations = before_.successfulRegistrations
               /\ ~isRegistered(r.w, document.hash)
               /\ r.w.registeredResources = registeredResources
               /\ r.w.cache = cache
               /\ r.w.server = server

\* a registration has failed, another document being registered
C13_Witness ==
  /\ last.op = "registerResource"
  /\ ~last.value.success /\ last.value.error = ServerError
  /\ registrationStats.failedRegistrations > 0
  /\ cache # <<>> /\ \A i \in 1..Len(cache) : ~isRegistered(world, cache[i].hash)

\* C14: when cleanupStaleResources, called in any state and nothing else
\* running between its awaits, has returned, no key is registered whose
\* document is not cached, every key that was registered and has a cached
\* document is registered as before, and the number returned is the number
\* of registrations removed.
C14_CleanupRemovesStale ==
  LET r == cleanupStaleResources(world)
      registered == DOMAIN registeredResources
      remaining == DOMAIN r.w.registeredResources
  IN /\ \A k \in remaining : indexOf(r.w.cache, k) # 0
     /\ remaining \subseteq registered
     /\ \A k \in registered :
          indexOf(cache, k) # 0
            => k \in remaining /\ r.w.registeredResources[k] = registeredResources[k]
     /\ r.cleaned = Cardinality(registered \ remaining)
     /\ getAllHashes(r.w.cache) = getAllHashes(cache)

\* a call has removed a stale registration and kept that of a cached document
C14_Witness ==
  /\ last.op = "cleanupStaleResources" /\ last.value = 1
  /\ registeredResources # <<>>
  /\ registrationStats.successfulRegistrations = 2

\* C15 as stated: getResourceUri(key) returns the URI of the registration
\* when the key is registered, whether or not its document is cached, and
\* for a key that is not registered the fallback URI built from the key
\* (asked with no call in flight, no calls having overlapped).
C15_UriOfRegistration ==
  (~overlapped /\ NoCallInFlight)
    => \A url \in URLS :
         LET hash == generateCacheKey(url)
             r == getResourceUri(world, hash)
         IN IF isRegistered(world, hash)
            THEN r.uri = registeredResources[hash].uri
            ELSE r.uri = "apple-docs://documentation/unknown-" \o hash

\* C16: the read callback of every resource the server has accepted, whenever
\* it is invoked, returns the markdown the cache holds under the document's
\* hash at that moment, and throws "Documentation not found" when the cache
\* holds no entry for it; whether the hash is still registered does not
\* matter.
C16_ReadIsLateBound ==
  \A r \in server :
    LET o == read(world, r)
        i == indexOf(cache, r.document.hash)
    IN IF i # 0
       THEN /\ ~o.thrown
            /\ o.contents.text = cache[i].markdown
            /\ o.contents.uri = r.uri
            /\ getAllHashes(o.w.cache) = getAllHashes(cache)
       ELSE /\ o.thrown
            /\ o.error = "Documentation not found: " \o r.document.title
            /\ o.w = world

\* a resource has been read whose document was stored again with another
\* markdown after its registration and then unregistered
C16_Witness ==
  /\ last.op = "read" /\ ~last.value.thrown
  /\ \E r \in server :
       /\ indexOf(cache, r.document.hash) # 0
       /\ ~isRegistered(world, r.document.hash)
       /\ cache[indexOf(cache, r.document.hash)].markdown # r.document.markdown
       /\ last.value.contents.text = cache[indexOf(cache, r.document.hash)].markdown

\* the accessCount of the entry under every key but hash is in c1 what it
\* is in c
othersCounted(c, c1, hash) ==
  \A i \in 1..Len(c) :
    c[i].key # hash
      => /\ indexOf(c1, c[i].key) # 0
         /\ c1[indexOf(c1, c[i].key)].accessCount = c[i].accessCount

\* C17 as stated: set leaves the entry of its key with accessCount 0, also
\* when it overwrites, and the accessCount of no other entry changed; a get
\* or getByHash that finds the entry adds exactly 1 to its accessCount and
\* changes that of no other entry; a get or getByHash that misses, has, size,
\* getAll, getStats and getLeastRecentlyUsed change no entry.  So the
\* accessCount of an entry is the number of successful reads of its key
\* since the last set for that key.
C17_AccessCountCountsReads ==
  [][ /\ \A url \in {UrlA, UrlB} :
           \A document \in {callerDocument(from, MdTitle) : from \in {UrlA, UrlB}}
                             \cup {getAll(cache)[i] : i \in 1..Len(cache)} :
             (last'.op = "set" /\ last'.value = url /\ Set(url, document))
               => LET hash == generateCacheKey(url)
                  IN /\ indexOf(cache', hash) # 0
                     /\ cache'[indexOf(cache', hash)].accessCount = 0
                     /\ othersCounted(cache, cache', hash)
      /\ \A url \in {UrlA, UrlB} :
           LET hash == generateCacheKey(url)
               i == indexOf(cache, hash)
           IN ( (last'.op = "get" /\ Get(url))
                \/ (last'.op = "getByHash" /\ GetByHash(hash)) )
              => IF i # 0
                 THEN /\ cache'[i].accessCount = cache[i].accessCount + 1
                      /\ othersCounted(cache, cache', hash)
                 ELSE cache' = cache
      /\ (last'.op \in {"has", "size", "getAll", "getStats", "getLeastRecentlyUsed"})
           => cache' = cache
    ]_vars

\* the same key holding a document of the same fields
sameEntry(a, b) == [a EXCEPT !.id = 0] = [b EXCEPT !.id = 0]

\* what C18 says of evictLRU(count) taking the cache from c to c1 and
\* returning evicted
evictsExactly(c, c1, evicted, count) ==
  LET k == IF count > 0 THEN count ELSE 0
      n == IF k < size(c) THEN k ELSE size(c)
  IN /\ Len(evicted) = n
     /\ size(c1) = size(c) - Len(evicted)
     /\ \A i, j \in 1..Len(evicted) : i # j => evicted[i] # evicted[j]
     /\ {evicted[i] : i \in 1..Len(evicted)} = keysOf(c) \ keysOf(c1)
     /\ \A i \in 1..Len(c1) : \E j \in 1..Len(c) : sameEntry(c1[i], c[j])
     /\ (count <= 0 => c1 = c)

\* C18 as stated: evictLRU(k) removes exactly min(max(k, 0), size()) entries,
\* returns their keys, distinct, removes nothing when k <= 0 and changes no
\* entry it does not return.
C18_EvictsExactly ==
  [][\A count \in -1..3 :
       (last'.op = "evictLRU" /\ EvictLRU(count))
         => evictsExactly(cache, cache', last'.evicted, count)]_vars

\* C19 as stated: the entry under every key of the cache has that key as
\* its hash, the key of a URL; get(u) returns no document of another hash
\* than the key of u; set(u, d) leaves under the key of u a document of that
\* hash, whatever hash d came with, and when u was cached the size and every
\* other entry are as before.
C19_KeyIsHashOfUrl ==
  [][ /\ \A i \in 1..Len(cache) : cache[i].hash = cache[i].key
                                   /\ cache[i].key \in KEYS
      /\ \A url \in URLS :
           get(cache, url).document # <<>>
             => get(cache, url).document[1].hash = generateCacheKey(url)
      /\ \A url \in {UrlA, UrlB} :
           \A document \in {callerDocument(from, MdTitle) : from \in {UrlA, UrlB}}
                             \cup {getAll(cache)[i] : i \in 1..Len(cache)} :
             (last'.op = "set" /\ last'.value = url /\ Set(url, document))
               => LET hash == generateCacheKey(url)
                  IN /\ indexOf(cache', hash) # 0
                     /\ cache'[indexOf(cache', hash)].hash = hash
                     /\ cache'[indexOf(cache', hash)].url = document.url
                     /\ IF has(cache, url)
                        THEN /\ size(cache') = size(cache)
                             /\ \A i \in 1..Len(cache) :
                                  cache[i].key # hash
                                    => sameEntry(cache'[i], cache[i])
                        ELSE /\ size(cache') = size(cache) + 1
                             /\ \A i \in 1..Len(cache) :
                                  sameEntry(cache'[i], cache[i])
    ]_vars

\* C20 as stated: no two registered keys have registrations of the same URI
\* (also when no calls have overlapped).
C20_DistinctUris ==
  (~overlapped /\ NoCallInFlight)
    => \A k1, k2 \in DOMAIN registeredResources :
         k1 # k2 => registeredResources[k1].uri # registeredResources[k2].uri

\* C21 as stated: a cacheAwareFormat miss with a formatter result that is no
\* error and with free capacity ends, for every URL string, with the document
\* stored in the cache and no error in the result.
C21_MissIsStored ==
  [][\A p \in PROCS :
       ( /\ formatted(p)
         /\ config.enabled /\ ~calls[p].skipCache
         /\ ~has(cache, calls[p].url)
         /\ (config.maxCacheSize = 0 \/ size(cache) < config.maxCacheSize)
         /\ ~outcome(p).isError )
       => /\ outcome(p).stored
          /\ has(cache', calls[p].url)
          /\ outcome(p).error = undefined]_vars

\* C22 as stated: every place that derives the external URI of a document
\* from its URL yields the same string, that of generateResourceUri.
C22_OneUriPerUrl ==
  [][\A url \in URLS :
       (last'.op = "generateDocsUri" /\ GenerateDocsUri(url))
         => last'.value = generateResourceUri(url)]_vars

\* C23: with enabled = false every cacheAwareFormat call invokes the
\* formatter exactly once and returns its result with fromCache = false;
\* nothing is stored or evicted, and the cache (access counts included), the
\* registry and its statistics are as before, whatever the cache holds.
C23_DisabledTouchesNothing ==
  \A url \in URLS, skipCache \in BOOLEAN, content \in CONTENTS,
     serverThrows \in BOOLEAN :
    ~config.enabled
      => LET r == cacheAwareFormat(world, url, skipCache, content, serverThrows, now)
         IN /\ r.formatCalls = 1
            /\ r.result.content = content
            /\ ~r.result.fromCache
            /\ ~r.stored /\ r.evicted = <<>>
            /\ r.w = world

\* a call has returned with caching switched off, the cache full and its
\* document registered
C23_Witness ==
  /\ last.op = "cacheAwareFormat" /\ last.formatCalls = 1 /\ ~last.isError
  /\ ~last.fromCache /\ ~last.stored
  /\ ~config.enabled
  /\ size(cache) = config.maxCacheSize
  /\ \A i \in 1..Len(cache) : isRegistered(world, cache[i].hash)

\* the operations of the ResourceManager
registryOps == {"registerResource", "unregisterResource",
                "cleanupStaleResources", "getResourceUri"}

\* C25 as stated: a call of registerResource, unregisterResource,
\* cleanupStaleResources or getResourceUri leaves the cache as it was: the
\* same entries in the same order with the same fields, accessCount included,
\* so that getLeastRecentlyUsed(1) names the same entry before and after
\* (the call overlapping no other).
C25_RegistryReadsOnly ==
  [][(~overlapped' /\ NoCallInFlight /\ last'.op \in registryOps)
       => /\ cache' = cache
          /\ getLeastRecentlyUsed(cache', 1) = getLeastRecentlyUsed(cache, 1)]_vars

\* the entries of a cache: the keys with the fields of their documents
entries(c) == {[c[i] EXCEPT !.id = 0] : i \in 1..Len(c)}

\* C26: in every step of a cacheAwareFormat call, calls overlapping or not:
\* the lookup that misses stores and registers nothing before the formatter
\* has returned; when the call awaits after its eviction, the victims are
\* gone from the cache and from the registry and nothing has been stored or
\* registered yet; an entry appears in the cache only in the step of a call
\* that holds its formatter's result, after its eviction; and a key becomes
\* registered only in the step that has stored its document.
C26_StepsInOrder ==
  [][/\ \A p \in PROCS :
          /\ (calls[p].pc = "idle" /\ calls'[p].pc = "format")
                => /\ cache' = cache
                   /\ registeredResources' = registeredResources
                   /\ server' = server
          /\ (calls[p].pc # "unregister" /\ calls'[p].pc = "unregister")
                => /\ calls[p].pc = "format"
                   /\ calls'[p].hashes # <<>>
                   /\ \A i \in 1..Len(calls'[p].hashes) :
                        /\ indexOf(cache', calls'[p].hashes[i]) = 0
                        /\ ~isRegistered(world', calls'[p].hashes[i])
                   /\ entries(cache') \subseteq entries(cache)
                   /\ DOMAIN registeredResources' \subseteq DOMAIN registeredResources
          /\ (calls[p].pc # "register" /\ calls'[p].pc = "register")
                => /\ calls[p].pc \in {"format", "unregister"}
                   /\ indexOf(cache', generateCacheKey(calls[p].url)) # 0
     /\ \A d \in entries(cache') \ entries(cache) :
          d.accessCount = 0
            => \E p \in PROCS :
                 /\ calls[p].pc \in {"format", "unregister"}
                 /\ calls'[p].pc \in {"register", "idle"}
                 /\ d.hash = generateCacheKey(calls[p].url)
     /\ \A k \in DOMAIN registeredResources' \ DOMAIN registeredResources :
          /\ indexOf(cache', k) # 0
          /\ \E p \in PROCS :
               /\ calls[p].pc \in {"format", "unregister"}
               /\ calls'[p].pc = "register"
               /\ k = generateCacheKey(calls[p].url)]_vars

\* a call has evicted a registered document, stored and registered its own
\* and returned, while the other caller awaits its formatter
C26_Witness ==
  /\ last.op = "cacheAwareFormat" /\ last.stored /\ last.evicted # <<>>
  /\ \E i \in 1..Len(cache) : isRegistered(world, cache[i].hash)
  /\ registrationStats.successfulRegistrations = 2
  /\ \E p \in PROCS : calls[p].pc = "format"

\* a call that has missed in its lookup, invoked the formatter and not
\* returned yet
pastMiss(p) == calls[p].pc \in {"format", "unregister", "register"}

\* C27 as stated: of the calls in flight for one URL with skipCache unset,
\* at most one has missed in its lookup and invoked the formatter; a second
\* one does not format (and then store) the same document again.
C27_FormatsOnce ==
  \A p \in PROCS : \A q \in PROCS \ {p} :
    (pastMiss(p) /\ ~calls[p].skipCache /\ pastMiss(q) /\ ~calls[q].skipCache)
      => calls[p].url # calls[q].url

\* C28 as stated: in the step in which a clearAll that has awaited returns,
\* whatever cacheAwareFormat calls have run between its awaits, the cache is
\* empty and no key is registered.
C28_ClearAllLeavesNothing ==
  [][\A p \in PROCS :
       (calls[p].pc = "clearing" /\ calls'[p].pc = "idle")
         => /\ cache' = <<>>
            /\ registeredResources' = <<>>]_vars

\* C29 as stated: a cacheAwareFormat call with skipCache for a URL that is
\* cached, the cache at its size limit, stores the new document in the place
\* of the old one: no other entry is evicted or unregistered, the call is
\* not turned away with an error, and size() is as before (no call
\* overlapping it).
C29_RefreshInPlace ==
  [][\A p \in PROCS :
       ( /\ formatted(p) /\ ~overlapped
         /\ config.enabled /\ calls[p].skipCache
         /\ has(cache, calls[p].url)
         /\ config.maxCacheSize > 0 /\ size(cache) >= config.maxCacheSize
         /\ (calls'[p].pc = "idle" => ~last'.isError) )
       => /\ calls'[p].pc # "unregister"
          /\ outcome(p).stored
          /\ outcome(p).error = undefined
          /\ size(cache') = size(cache)
          /\ \A k \in DOMAIN registeredResources :
               k # generateCacheKey(calls[p].url) => isRegistered(world', k)]_vars

\* the registered keys whose cached document has the type
registeredOfType(w, type) ==
  {k \in registeredDocuments(w) : w.cache[indexOf(w.cache, k)].type = type}

\* C30 as stated: after any sequence of cacheAwareFormat and clearAll calls
\* that do not overlap (every registered key then has its document cached),
\* getStats().resourceTypes[t] is, for every document type t, the number of
\* registered keys whose document has type t.
C30_TypeCountsMatch ==
  (~overlapped /\ NoCallInFlight)
    => \A type \in DOCTYPES :
         typeCount(registrationStats.resourceTypes, type)
           = Cardinality(registeredOfType(world, type))

====
